---- MODULE Spec2Model ----
(***************************************************************************)
(* Model of the vPDQ batch processor of meme-mage,                         *)
(* src/src/lib/video_processor/process_videos.py: several invocations of   *)
(* main() (runners) work concurrently on the meme_templates table.  Every  *)
(* store round trip is one atomic action; the local pipeline of one item   *)
(* (process_video) is one action computed by the operators below.          *)
(***************************************************************************)
EXTENDS Integers, Sequences, FiniteSets, TLC

VARIABLES
    now,                 \* the wall clock read by datetime.now(timezone.utc)
    rows,                \* the meme_templates table, one row per id
    pc,                  \* position of each runner in main()
    timestamp_now,       \* lock_and_fetch_batch: timestamp_now of each runner
    candidate_ids,       \* lock_and_fetch_batch: candidate_ids
    locked_templates,    \* main: locked_templates, in the order returned
    idx,                 \* main: position of the for loop in locked_templates
    vpdq_hashes,         \* main: vpdq_hashes of the item in hand
    error_msg,           \* main: error_msg of the item in hand
    processed_count,     \* main: processed_count
    failed_count,        \* main: failed_count
    tmpdir,              \* main: the TemporaryDirectory of the batch exists
    files,               \* ids whose temp file is still in the batch tmpdir
    download_result,     \* what download_video did for the item in hand
    hasher_result,       \* what the hashing did for the item in hand
    finalized,           \* history: ids whose final status update was applied
    failed_updates,      \* history: ids whose final status update raised
    abandoned,           \* history: ids a runner held confirmed when it was killed
    read_unlocked,       \* non-atomic store: rows a lock update has read as unlocked
    batch_size,          \* PROCESSING_BATCH_SIZE as the environment sets it
    quality_threshold,   \* generate_vpdq_hashes alone: HASH_QUALITY_THRESHOLD
    subsampling_rate,    \* generate_vpdq_hashes alone: HASH_SUBSAMPLING_RATE
    hasher_response,     \* generate_vpdq_hashes alone: what the hasher gives
    generated            \* generate_vpdq_hashes alone: <<return value>> once run

vars == <<now, rows, pc, timestamp_now, candidate_ids, locked_templates, idx,
          vpdq_hashes, error_msg, processed_count, failed_count, tmpdir, files,
          download_result, hasher_result, finalized, failed_updates,
          abandoned, read_unlocked, batch_size, quality_threshold, subsampling_rate, hasher_response,
          generated>>

(* The variables of the study of generate_vpdq_hashes on its own *)
filter == <<quality_threshold, subsampling_rate, hasher_response, generated>>

conf == <<batch_size, filter, read_unlocked>>

batch == <<timestamp_now, candidate_ids, locked_templates>>

item == <<vpdq_hashes, error_msg, download_result, hasher_result>>

loop == <<idx, processed_count, failed_count, tmpdir, files>>

hist == <<finalized, failed_updates, abandoned>>

-----------------------------------------------------------------------------
(* Bounds of the model *)

NumItems == 2
NumRunners == 2
MaxClock == 2
MaxRawLen == 1
MaxFilterLen == 5
MaxRate == 3

Ids == 1..NumItems
Runners == 1..NumRunners

(* Configuration read from the environment, with the values of this model *)
PROCESSING_BATCH_SIZE == 2
HASH_QUALITY_THRESHOLD == 90
HASH_SUBSAMPLING_RATE == 2

-----------------------------------------------------------------------------
(* Python's None and a present value: None is the empty sequence, a present *)
(* value x is the one-element sequence <<x>>.                                *)

None == << >>
Some(x) == <<x>>
Get(o) == o[1]

(* Python truthiness of an optional string: None and '' are falsy *)
Truthy(o) == o # None /\ Get(o) # ""

Min(a, b) == IF a <= b THEN a ELSE b

-----------------------------------------------------------------------------
(* The meme_templates table *)

SourceUrls == {None, Some(""), Some("https://v/1.mp4")}

NewRow(url) ==
    [source_video_url            |-> url,
     vpdq_frame_hashes           |-> None,
     video_processing_started_at |-> None,
     video_processed_at          |-> None,
     video_processing_error      |-> None]

(* Step 1 of lock_and_fetch_batch: the filter of the select *)
IsCandidate(row) ==
    /\ row.vpdq_frame_hashes = None
    /\ row.video_processing_started_at = None
    /\ row.source_video_url # None

(* A select without its limit: every matching row *)
SelectCandidates_NoLimit(rs, limit) ==
    {{i \in Ids : IsCandidate(rs[i])}}

(* .limit(n): any n of the matching rows, all of them when there are fewer *)
SelectCandidates(rs, limit) ==
    LET matching == {i \in Ids : IsCandidate(rs[i])}
    IN  {S \in SUBSET matching : Cardinality(S) = Min(limit, Cardinality(matching))}

(* A lock update without its is_(..., None) filter *)
LockUpdate_Unconditional(rs, ids, ts) ==
    [i \in Ids |->
        IF i \in ids
        THEN [rs[i] EXCEPT !.video_processing_started_at = Some(ts)]
        ELSE rs[i]]

(* Step 2: update ... in_('id', ids).is_('video_processing_started_at', None) *)
LockUpdate(rs, ids, ts) ==
    [i \in Ids |->
        IF i \in ids /\ rs[i].video_processing_started_at = None
        THEN [rs[i] EXCEPT !.video_processing_started_at = Some(ts)]
        ELSE rs[i]]

(* Step 3: select ... in_('id', ids).eq('video_processing_started_at', ts) *)
FetchLocked(rs, ids, ts) ==
    {i \in ids : rs[i].video_processing_started_at = Some(ts)}

(* A list that gives the first row twice *)
AsList_Repeat(S) ==
    IF S = {} THEN << >>
    ELSE LET first == CHOOSE i \in S : \A j \in S : i <= j
         IN  <<first, first>>

(* The rows of a select as a list; the store returns them in id order *)
RECURSIVE AsList(_)
AsList(S) ==
    IF S = {} THEN << >>
    ELSE LET first == CHOOSE i \in S : \A j \in S : i <= j
         IN  <<first>> \o AsList(S \ {first})

Template(rs, i) == [id |-> i, source_video_url |-> rs[i].source_video_url]

(* An update_data that stamps video_processed_at whatever the outcome *)
UpdateData_AlwaysProcessed(clock, hashes, err) ==
    [video_processed_at          |-> Some(clock),
     video_processing_error      |-> err,
     vpdq_frame_hashes           |-> hashes,
     video_processing_started_at |-> None]

(* update_template_status: the update_data dictionary *)
UpdateData(clock, hashes, err) ==
    [video_processed_at          |-> IF hashes # None THEN Some(clock) ELSE None,
     video_processing_error      |-> err,
     vpdq_frame_hashes           |-> hashes,
     video_processing_started_at |-> None]

(* An update without its eq('id', template_id) filter: every row is written *)
ApplyUpdate_NoFilter(rs, id, data) ==
    [i \in Ids |->
        [source_video_url            |-> rs[i].source_video_url,
         vpdq_frame_hashes           |-> data.vpdq_frame_hashes,
         video_processing_started_at |-> data.video_processing_started_at,
         video_processed_at          |-> data.video_processed_at,
         video_processing_error      |-> data.video_processing_error]]

(* An update that clears a fingerprint it finds instead of writing its own *)
ApplyUpdate_Toggle(rs, id, data) ==
    [rs EXCEPT ![id] =
        [source_video_url            |-> rs[id].source_video_url,
         vpdq_frame_hashes           |-> IF rs[id].vpdq_frame_hashes = None
                                         THEN data.vpdq_frame_hashes ELSE None,
         video_processing_started_at |-> data.video_processing_started_at,
         video_processed_at          |-> data.video_processed_at,
         video_processing_error      |-> data.video_processing_error]]

(* update(update_data).eq('id', template_id) *)
ApplyUpdate(rs, id, data) ==
    [rs EXCEPT ![id] =
        [source_video_url            |-> rs[id].source_video_url,
         vpdq_frame_hashes           |-> data.vpdq_frame_hashes,
         video_processing_started_at |-> data.video_processing_started_at,
         video_processed_at          |-> data.video_processed_at,
         video_processing_error      |-> data.video_processing_error]]

-----------------------------------------------------------------------------
(* download_video: what the fetch of one URL can do *)
(*   ok            bytes written, the temp path is returned                 *)
(*   http_error    requests.get / raise_for_status raises, no file created  *)
(*   zero_bytes    0 bytes received, the temp file is removed, None         *)
(*   stream_error  RequestException while reading the body, after mkstemp:  *)
(*                 None is returned and the temp file is left behind        *)
(*   os_error      another exception while writing: temp file removed, None *)
DownloadOutcomes == {"ok", "http_error", "zero_bytes", "stream_error", "os_error"}

(* The value download_video returns: the temp path of item id, or None *)
DownloadVideo(id, dl) == IF dl = "ok" THEN Some(id) ELSE None

(* Whether download_video leaves a temp file in temp_dir when it returns *)
DownloadLeavesFile(dl) == dl \in {"ok", "stream_error"}

(* A frame object of the hasher's JSON output: position i, quality q *)
Frame(i, q) == [pdq_hash |-> i, quality |-> q, timestamp |-> i - 1]

(* An element of the output that lacks the quality key *)
BadFrame(i) == [pdq_hash |-> i, timestamp |-> i - 1]

Qualities == {HASH_QUALITY_THRESHOLD - 1, HASH_QUALITY_THRESHOLD}

RawElements(i) == {Frame(i, q) : q \in Qualities} \cup {BadFrame(i)}

(* The lists of n elements, the element at position i being one of RawElements(i) *)
RECURSIVE RawListsOfLen(_)
RawListsOfLen(n) ==
    IF n = 0 THEN {<< >>}
    ELSE {Append(s, e) : s \in RawListsOfLen(n - 1), e \in RawElements(n)}

RawListsUpTo(max) == UNION {RawListsOfLen(n) : n \in 0..max}

RawLists == RawListsUpTo(MaxRawLen)

(* What the hashing of one file can do: the guards and the try block of     *)
(* generate_vpdq_hashes, and the os.path.getsize before the try block       *)
HashFailures ==
    {"unavailable", "missing_file", "not_string", "bad_json", "not_list", "raises"}

HasherResponses ==
    {[kind |-> k, frames |-> << >>] : k \in HashFailures \cup {"getsize_raises"}}
        \cup {[kind |-> "list", frames |-> s] : s \in RawLists}

(* What VPDQSignal.hash_from_file can give generate_vpdq_hashes, with longer lists *)
LongHasherResponses ==
    {[kind |-> k, frames |-> << >>] : k \in HashFailures}
        \cup {[kind |-> "list", frames |-> s] : s \in RawListsUpTo(MaxFilterLen)}

(* The values int(os.environ.get(...)) gives the two hashing settings *)
QualityThresholds ==
    {HASH_QUALITY_THRESHOLD - 1, HASH_QUALITY_THRESHOLD, HASH_QUALITY_THRESHOLD + 1}

SubsamplingRates == -1..MaxRate

(* isinstance(frame, dict) and all(k in frame for k in (...)) *)
IsValidFrame(frame) == {"pdq_hash", "quality", "timestamp"} \subseteq DOMAIN frame

(* The quality test left out: every well-formed frame is kept *)
KeepFrame_NoThreshold(frame, threshold) == IsValidFrame(frame)

(* if isinstance(...) and all(...): if frame.get('quality', 0) >= threshold *)
KeepFrame(frame, threshold) ==
    IF IsValidFrame(frame) THEN frame.quality >= threshold ELSE FALSE

(* The quality filter loop of generate_vpdq_hashes *)
RECURSIVE FilterFrames(_, _)
FilterFrames(raw_frames, threshold) ==
    IF raw_frames = << >> THEN << >>
    ELSE LET rest == FilterFrames(Tail(raw_frames), threshold)
         IN  IF KeepFrame(Head(raw_frames), threshold)
             THEN <<Head(raw_frames)>> \o rest
             ELSE rest

(* A slice that keeps only the full strides: one frame too few *)
Subsample_Floor(filtered_frames, rate) ==
    [k \in 1..(Len(filtered_frames) \div rate) |->
        filtered_frames[(k - 1) * rate + 1]]

(* filtered_frames[::rate] for rate > 1 *)
Subsample(filtered_frames, rate) ==
    [k \in 1..((Len(filtered_frames) + rate - 1) \div rate) |->
        filtered_frames[(k - 1) * rate + 1]]

(* The slice taken on the raw list, the quality filter after it *)
GenerateVpdqHashes_SliceFirst(resp, threshold, rate) ==
    IF resp.kind # "list" THEN None
    ELSE IF rate > 1 THEN Some(FilterFrames(Subsample(resp.frames, rate), threshold))
    ELSE Some(FilterFrames(resp.frames, threshold))

(* generate_vpdq_hashes: the list of kept frames, or None *)
GenerateVpdqHashes(resp, threshold, rate) ==
    IF resp.kind # "list" THEN None
    ELSE IF resp.frames = << >> THEN Some(<< >>)
    ELSE LET filtered_frames == FilterFrames(resp.frames, threshold)
         IN  IF filtered_frames = << >> THEN Some(<< >>)
             ELSE IF rate > 1 THEN Some(Subsample(filtered_frames, rate))
             ELSE Some(filtered_frames)

(* process_video without its check of a None result of the hashing *)
ProcessVideo_NoHashError(id, dl, resp) ==
    LET local_video_path == DownloadVideo(id, dl)
    IN  [vpdq_frame_objects |->
             IF local_video_path = None \/ resp.kind = "getsize_raises" THEN None
             ELSE GenerateVpdqHashes(resp, HASH_QUALITY_THRESHOLD, HASH_SUBSAMPLING_RATE),
         error_message |->
             IF local_video_path = None THEN Some("Video download failed.") ELSE None]

(* process_video: the pair (vpdq_frame_objects, error_message) *)
ProcessVideo(id, dl, resp) ==
    LET local_video_path == DownloadVideo(id, dl)
        hashes == IF local_video_path = None \/ resp.kind = "getsize_raises"
                  THEN None
                  ELSE GenerateVpdqHashes(resp, HASH_QUALITY_THRESHOLD,
                                          HASH_SUBSAMPLING_RATE)
        error_message ==
            IF local_video_path = None THEN Some("Video download failed.")
            ELSE IF resp.kind = "getsize_raises" THEN Some("str(e)")
            ELSE IF hashes = None
                 THEN Some("vPDQ hash generation returned None (check logs).")
            ELSE IF Get(hashes) = << >>
                 THEN Some("vPDQ hash generation resulted in zero frames after filtering.")
            ELSE None
    IN  [vpdq_frame_objects |-> hashes, error_message |-> error_message]

(* Whether a temp file of the item is still in the batch directory when    *)
(* process_video returns: its finally block removes the file whose path     *)
(* download_video returned                                                  *)
FileRemains(dl) ==
    IF DownloadVideo(0, dl) # None THEN FALSE ELSE DownloadLeavesFile(dl)

-----------------------------------------------------------------------------
(* The runners *)

(* The runners before any invocation, on a table of unprocessed rows *)
InitRunners ==
    /\ now = 1
    /\ rows \in [Ids -> {NewRow(u) : u \in SourceUrls}]
    /\ pc = [r \in Runners |-> "idle"]
    /\ timestamp_now = [r \in Runners |-> 0]
    /\ candidate_ids = [r \in Runners |-> {}]
    /\ locked_templates = [r \in Runners |-> << >>]
    /\ idx = [r \in Runners |-> 0]
    /\ vpdq_hashes = [r \in Runners |-> None]
    /\ error_msg = [r \in Runners |-> None]
    /\ processed_count = [r \in Runners |-> 0]
    /\ failed_count = [r \in Runners |-> 0]
    /\ tmpdir = [r \in Runners |-> FALSE]
    /\ files = [r \in Runners |-> {}]
    /\ download_result = [r \in Runners |-> "none"]
    /\ hasher_result = [r \in Runners |-> "none"]
    /\ finalized = {}
    /\ failed_updates = {}
    /\ abandoned = {}
    /\ read_unlocked = [r \in Runners |-> {}]

(* generate_vpdq_hashes is not studied on its own *)
InitFilterUnused ==
    /\ quality_threshold = HASH_QUALITY_THRESHOLD
    /\ subsampling_rate = HASH_SUBSAMPLING_RATE
    /\ hasher_response = [kind |-> "list", frames |-> << >>]
    /\ generated = << >>

Init ==
    /\ InitRunners
    /\ InitFilterUnused
    /\ batch_size = PROCESSING_BATCH_SIZE

(* Time passes *)
Tick ==
    /\ now < MaxClock
    /\ now' = now + 1
    /\ UNCHANGED <<conf, rows, pc, batch, item, loop, hist>>

(* An invocation of main() begins: initialize_supabase succeeds and        *)
(* lock_and_fetch_batch reads the clock                                     *)
Start(r) ==
    /\ pc[r] = "idle"
    /\ pc' = [pc EXCEPT ![r] = "select"]
    /\ timestamp_now' = [timestamp_now EXCEPT ![r] = now]
    /\ candidate_ids' = [candidate_ids EXCEPT ![r] = {}]
    /\ locked_templates' = [locked_templates EXCEPT ![r] = << >>]
    /\ idx' = [idx EXCEPT ![r] = 0]
    /\ processed_count' = [processed_count EXCEPT ![r] = 0]
    /\ failed_count' = [failed_count EXCEPT ![r] = 0]
    /\ UNCHANGED <<conf, now, rows, item, tmpdir, files, hist>>

(* A main that goes on to lock_and_fetch_batch without a client *)
InitializeFails_GoesOn(r) ==
    /\ pc[r] = "idle"
    /\ pc' = [pc EXCEPT ![r] = "select"]
    /\ timestamp_now' = [timestamp_now EXCEPT ![r] = now]
    /\ UNCHANGED <<conf, now, rows, candidate_ids, locked_templates, item, loop, hist>>

(* initialize_supabase returns None: sys.exit(1) *)
InitializeFails(r) ==
    /\ pc[r] = "idle"
    /\ pc' = [pc EXCEPT ![r] = "exit1"]
    /\ locked_templates' = [locked_templates EXCEPT ![r] = << >>]
    /\ candidate_ids' = [candidate_ids EXCEPT ![r] = {}]
    /\ idx' = [idx EXCEPT ![r] = 0]
    /\ processed_count' = [processed_count EXCEPT ![r] = 0]
    /\ failed_count' = [failed_count EXCEPT ![r] = 0]
    /\ UNCHANGED <<conf, now, rows, timestamp_now, item, tmpdir, files, hist>>

(* A select that goes on to the lock update whatever it read *)
Select_AlwaysLock(r) ==
    /\ pc[r] = "select"
    /\ \E ids \in SelectCandidates(rows, batch_size) :
          candidate_ids' = [candidate_ids EXCEPT ![r] = ids]
    /\ pc' = [pc EXCEPT ![r] = "lock"]
    /\ UNCHANGED <<conf, now, rows, timestamp_now, locked_templates, item, loop, hist>>

(* Step 1: select the candidates; no data: return [] and main returns *)
Select(r) ==
    /\ pc[r] = "select"
    /\ \E ids \in SelectCandidates(rows, batch_size) :
          /\ candidate_ids' = [candidate_ids EXCEPT ![r] = ids]
          /\ pc' = [pc EXCEPT ![r] = IF ids = {} THEN "done" ELSE "lock"]
    /\ UNCHANGED <<conf, now, rows, timestamp_now, locked_templates, item, loop, hist>>

(* Step 2: the conditional update that takes the lock *)
Lock(r) ==
    /\ pc[r] = "lock"
    /\ rows' = LockUpdate(rows, candidate_ids[r], timestamp_now[r])
    /\ pc' = [pc EXCEPT ![r] = "confirm"]
    /\ UNCHANGED <<conf, now, batch, item, loop, hist>>

(* Step 3: fetch the rows that carry this call's timestamp; main returns   *)
(* when there are none, else it creates the batch directory                 *)
Confirm(r) ==
    /\ pc[r] = "confirm"
    /\ LET order == AsList(FetchLocked(rows, candidate_ids[r], timestamp_now[r])) IN
          /\ locked_templates' = [locked_templates EXCEPT ![r] =
                 [k \in DOMAIN order |-> Template(rows, order[k])]]
          /\ pc' = [pc EXCEPT ![r] = IF order = << >> THEN "done" ELSE "loop"]
          /\ idx' = [idx EXCEPT ![r] = IF order = << >> THEN 0 ELSE 1]
          /\ tmpdir' = [tmpdir EXCEPT ![r] = order # << >>]
    /\ UNCHANGED <<conf, now, rows, timestamp_now, candidate_ids, item,
                   processed_count, failed_count, files, hist>>

(* except Exception in lock_and_fetch_batch: locked_templates stays [] and *)
(* main returns; an update that raised may or may not have been applied     *)
StoreError(r) ==
    /\ pc[r] \in {"select", "lock", "confirm"}
    /\ \E applied \in BOOLEAN :
          rows' = IF pc[r] = "lock" /\ applied
                  THEN LockUpdate(rows, candidate_ids[r], timestamp_now[r])
                  ELSE rows
    /\ pc' = [pc EXCEPT ![r] = "done"]
    /\ UNCHANGED <<conf, now, batch, item, loop, hist>>

(* The item of the for loop *)
Current(r) == locked_templates[r][idx[r]]

InLoop(r) == pc[r] = "loop" /\ idx[r] <= Len(locked_templates[r])

(* A skip that moves to the next item and counts nothing *)
SkipInvalid_NoCount(r) ==
    /\ InLoop(r)
    /\ ~Truthy(Current(r).source_video_url)
    /\ idx' = [idx EXCEPT ![r] = @ + 1]
    /\ UNCHANGED <<conf, now, rows, pc, batch, item, processed_count, failed_count,
                   tmpdir, files, hist>>

(* if not template_id or not video_url: failed_count += 1; continue        *)
(* (the ids of the table are never falsy)                                   *)
SkipInvalid(r) ==
    /\ InLoop(r)
    /\ ~Truthy(Current(r).source_video_url)
    /\ failed_count' = [failed_count EXCEPT ![r] = @ + 1]
    /\ idx' = [idx EXCEPT ![r] = @ + 1]
    /\ UNCHANGED <<conf, now, rows, pc, batch, item, processed_count, tmpdir, files, hist>>

(* A loop that runs the pipeline and goes to the next item, the final     *)
(* update of this one still to come                                        *)
Process_NextItem(r) ==
    /\ InLoop(r)
    /\ Truthy(Current(r).source_video_url)
    /\ \E dl \in DownloadOutcomes, resp \in HasherResponses :
          LET result == ProcessVideo(Current(r).id, dl, resp)
          IN  /\ vpdq_hashes' = [vpdq_hashes EXCEPT ![r] = result.vpdq_frame_objects]
              /\ error_msg' = [error_msg EXCEPT ![r] = result.error_message]
              /\ download_result' = [download_result EXCEPT ![r] = dl]
              /\ hasher_result' = [hasher_result EXCEPT ![r] =
                     IF dl = "ok" THEN resp.kind ELSE "not_called"]
    /\ idx' = [idx EXCEPT ![r] = @ + 1]
    /\ UNCHANGED <<conf, now, rows, pc, batch, processed_count, failed_count, tmpdir,
                   files, hist>>

(* process_video: download, hash, filter, remove the temp file *)
Process(r) ==
    /\ InLoop(r)
    /\ Truthy(Current(r).source_video_url)
    /\ \E dl \in DownloadOutcomes, resp \in HasherResponses :
          LET result == ProcessVideo(Current(r).id, dl, resp)
          IN  /\ vpdq_hashes' = [vpdq_hashes EXCEPT ![r] = result.vpdq_frame_objects]
              /\ error_msg' = [error_msg EXCEPT ![r] = result.error_message]
              /\ download_result' = [download_result EXCEPT ![r] = dl]
              /\ hasher_result' = [hasher_result EXCEPT ![r] =
                     IF dl = "ok" THEN resp.kind ELSE "not_called"]
              /\ files' = [files EXCEPT ![r] =
                     IF FileRemains(dl) THEN @ \cup {Current(r).id} ELSE @]
    /\ pc' = [pc EXCEPT ![r] = "update"]
    /\ UNCHANGED <<conf, now, rows, batch, idx, processed_count, failed_count, tmpdir, hist>>

(* The counting after update_template_status, and the next iteration *)
Count(r) ==
    /\ IF vpdq_hashes[r] # None /\ error_msg[r] = None
       THEN /\ processed_count' = [processed_count EXCEPT ![r] = @ + 1]
            /\ UNCHANGED failed_count
       ELSE /\ failed_count' = [failed_count EXCEPT ![r] = @ + 1]
            /\ UNCHANGED processed_count
    /\ idx' = [idx EXCEPT ![r] = @ + 1]
    /\ pc' = [pc EXCEPT ![r] = "loop"]
    /\ vpdq_hashes' = [vpdq_hashes EXCEPT ![r] = None]
    /\ error_msg' = [error_msg EXCEPT ![r] = None]
    /\ download_result' = [download_result EXCEPT ![r] = "none"]
    /\ hasher_result' = [hasher_result EXCEPT ![r] = "none"]

(* update_template_status: the final update of the row is applied *)
UpdateStatus(r) ==
    /\ pc[r] = "update"
    /\ rows' = ApplyUpdate(rows, Current(r).id,
                           UpdateData(now, vpdq_hashes[r], error_msg[r]))
    /\ finalized' = finalized \cup {Current(r).id}
    /\ Count(r)
    /\ UNCHANGED <<conf, now, batch, tmpdir, files, failed_updates, abandoned>>

(* update_template_status: the update raises, the error is logged *)
UpdateFails(r) ==
    /\ pc[r] = "update"
    /\ failed_updates' = failed_updates \cup {Current(r).id}
    /\ Count(r)
    /\ UNCHANGED <<conf, now, rows, batch, tmpdir, files, finalized, abandoned>>

(* An end of the loop that leaves the batch directory on the disk *)
Finish_KeepsDir(r) ==
    /\ pc[r] = "loop"
    /\ idx[r] > Len(locked_templates[r])
    /\ pc' = [pc EXCEPT ![r] = "done"]
    /\ UNCHANGED <<conf, now, rows, batch, item, loop, hist>>

(* The for loop is over: the TemporaryDirectory is removed, main returns *)
Finish(r) ==
    /\ pc[r] = "loop"
    /\ idx[r] > Len(locked_templates[r])
    /\ tmpdir' = [tmpdir EXCEPT ![r] = FALSE]
    /\ files' = [files EXCEPT ![r] = {}]
    /\ pc' = [pc EXCEPT ![r] = "done"]
    /\ UNCHANGED <<conf, now, rows, batch, item, idx, processed_count, failed_count, hist>>

(* The process is killed: it takes no further step and its variables are  *)
(* gone; what it wrote to the table and to the disk stays                  *)
Crash(r) ==
    /\ pc[r] \in {"select", "lock", "confirm", "loop", "update"}
    /\ pc' = [pc EXCEPT ![r] = "crashed"]
    /\ timestamp_now' = [timestamp_now EXCEPT ![r] = 0]
    /\ candidate_ids' = [candidate_ids EXCEPT ![r] = {}]
    /\ locked_templates' = [locked_templates EXCEPT ![r] = << >>]
    /\ idx' = [idx EXCEPT ![r] = 0]
    /\ processed_count' = [processed_count EXCEPT ![r] = 0]
    /\ failed_count' = [failed_count EXCEPT ![r] = 0]
    /\ vpdq_hashes' = [vpdq_hashes EXCEPT ![r] = None]
    /\ error_msg' = [error_msg EXCEPT ![r] = None]
    /\ download_result' = [download_result EXCEPT ![r] = "none"]
    /\ hasher_result' = [hasher_result EXCEPT ![r] = "none"]
    /\ abandoned' = abandoned \cup
           (IF pc[r] \in {"loop", "update"}
            THEN {locked_templates[r][k].id : k \in idx[r]..Len(locked_templates[r])}
            ELSE {})
    /\ UNCHANGED <<conf, now, rows, tmpdir, files, finalized, failed_updates>>

Next ==
    \/ Tick
    \/ \E r \in Runners :
          \/ Start(r)
          \/ InitializeFails(r)
          \/ Select(r)
          \/ Lock(r)
          \/ Confirm(r)
          \/ StoreError(r)
          \/ SkipInvalid(r)
          \/ Process(r)
          \/ UpdateStatus(r)
          \/ UpdateFails(r)
          \/ Finish(r)
          \/ Crash(r)

Spec == Init /\ [][Next]_vars

-----------------------------------------------------------------------------
(* The same program when an exception that no except clause of the loop    *)
(* catches (KeyboardInterrupt, SystemExit: not subclasses of Exception)    *)
(* can be raised inside the with block: the TemporaryDirectory is removed  *)
(* on the way out and the process ends with the exception                  *)

Interrupt(r) ==
    /\ pc[r] \in {"loop", "update"}
    /\ pc' = [pc EXCEPT ![r] = "interrupted"]
    /\ tmpdir' = [tmpdir EXCEPT ![r] = FALSE]
    /\ files' = [files EXCEPT ![r] = {}]
    /\ timestamp_now' = [timestamp_now EXCEPT ![r] = 0]
    /\ candidate_ids' = [candidate_ids EXCEPT ![r] = {}]
    /\ locked_templates' = [locked_templates EXCEPT ![r] = << >>]
    /\ idx' = [idx EXCEPT ![r] = 0]
    /\ processed_count' = [processed_count EXCEPT ![r] = 0]
    /\ failed_count' = [failed_count EXCEPT ![r] = 0]
    /\ vpdq_hashes' = [vpdq_hashes EXCEPT ![r] = None]
    /\ error_msg' = [error_msg EXCEPT ![r] = None]
    /\ download_result' = [download_result EXCEPT ![r] = "none"]
    /\ hasher_result' = [hasher_result EXCEPT ![r] = "none"]
    /\ UNCHANGED <<conf, now, rows, hist>>

NextInterrupt ==
    \/ Next
    \/ \E r \in Runners : Interrupt(r)

InterruptSpec == Init /\ [][NextInterrupt]_vars

-----------------------------------------------------------------------------
(* The same program on a store that executes the conditional lock update   *)
(* row by row without atomicity: it first reads which of the selected rows *)
(* have a null lock, and later writes the timestamp on the rows it read    *)

LockRead(r) ==
    /\ pc[r] = "lock"
    /\ read_unlocked' = [read_unlocked EXCEPT ![r] =
           {i \in candidate_ids[r] : rows[i].video_processing_started_at = None}]
    /\ pc' = [pc EXCEPT ![r] = "lock_write"]
    /\ UNCHANGED <<batch_size, filter, now, rows, batch, item, loop, hist>>

(* A write that looks at the lock again: the atomic update *)
LockWrite_Recheck(r) ==
    /\ pc[r] = "lock_write"
    /\ rows' = LockUpdate(rows, read_unlocked[r], timestamp_now[r])
    /\ read_unlocked' = [read_unlocked EXCEPT ![r] = {}]
    /\ pc' = [pc EXCEPT ![r] = "confirm"]
    /\ UNCHANGED <<batch_size, filter, now, batch, item, loop, hist>>

LockWrite(r) ==
    /\ pc[r] = "lock_write"
    /\ rows' = [i \in Ids |->
           IF i \in read_unlocked[r]
           THEN [rows[i] EXCEPT !.video_processing_started_at = Some(timestamp_now[r])]
           ELSE rows[i]]
    /\ read_unlocked' = [read_unlocked EXCEPT ![r] = {}]
    /\ pc' = [pc EXCEPT ![r] = "confirm"]
    /\ UNCHANGED <<batch_size, filter, now, batch, item, loop, hist>>

NextNonAtomic ==
    \/ Tick
    \/ \E r \in Runners :
          \/ Start(r)
          \/ InitializeFails(r)
          \/ Select(r)
          \/ LockRead(r)
          \/ LockWrite(r)
          \/ Confirm(r)
          \/ StoreError(r)
          \/ SkipInvalid(r)
          \/ Process(r)
          \/ UpdateStatus(r)
          \/ UpdateFails(r)
          \/ Finish(r)
          \/ Crash(r)

NonAtomicSpec == Init /\ [][NextNonAtomic]_vars

-----------------------------------------------------------------------------
(* Repeated batch invocations (the script is run again and again, e.g. by  *)
(* a scheduler) with no crash and no store failure: a runner whose main()  *)
(* has returned starts main() anew, and every runner that can take a step  *)
(* eventually takes one                                                    *)

Restart(r) ==
    /\ pc[r] = "done"
    /\ pc' = [pc EXCEPT ![r] = "idle"]
    /\ timestamp_now' = [timestamp_now EXCEPT ![r] = 0]
    /\ candidate_ids' = [candidate_ids EXCEPT ![r] = {}]
    /\ locked_templates' = [locked_templates EXCEPT ![r] = << >>]
    /\ idx' = [idx EXCEPT ![r] = 0]
    /\ processed_count' = [processed_count EXCEPT ![r] = 0]
    /\ failed_count' = [failed_count EXCEPT ![r] = 0]
    /\ UNCHANGED <<conf, now, rows, item, tmpdir, files, hist>>

RepeatRunner(r) ==
    \/ Start(r)
    \/ Select(r)
    \/ Lock(r)
    \/ Confirm(r)
    \/ SkipInvalid(r)
    \/ Process(r)
    \/ UpdateStatus(r)
    \/ Finish(r)
    \/ Restart(r)

NextRepeat ==
    \/ Tick
    \/ \E r \in Runners : RepeatRunner(r)

RepeatSpec ==
    /\ Init
    /\ [][NextRepeat]_vars
    /\ \A r \in Runners : WF_vars(RepeatRunner(r))

-----------------------------------------------------------------------------
(* The same program with PROCESSING_BATCH_SIZE set in the environment to   *)
(* any value from 1 to the one above, so that the limit of the select can  *)
(* be below the number of candidate rows                                    *)

BatchSizes == 1..PROCESSING_BATCH_SIZE

InitBatch ==
    /\ InitRunners
    /\ InitFilterUnused
    /\ batch_size \in BatchSizes

BatchSpec == InitBatch /\ [][Next]_vars

-----------------------------------------------------------------------------
(* generate_vpdq_hashes on its own: one call on every hasher response and  *)
(* every setting of the threshold and of the subsampling rate              *)

InitFilter ==
    /\ InitRunners
    /\ \A i \in Ids : rows[i].source_video_url = None
    /\ batch_size = PROCESSING_BATCH_SIZE
    /\ quality_threshold \in QualityThresholds
    /\ subsampling_rate \in SubsamplingRates
    /\ hasher_response \in LongHasherResponses
    /\ generated = << >>

Generate ==
    /\ generated = << >>
    /\ generated' = <<GenerateVpdqHashes(hasher_response, quality_threshold,
                                          subsampling_rate)>>
    /\ UNCHANGED <<batch_size, quality_threshold, subsampling_rate, hasher_response,
                   read_unlocked, now, rows, pc, batch, item, loop, hist>>

NextFilter == Generate

FilterSpec == InitFilter /\ [][NextFilter]_vars

-----------------------------------------------------------------------------
(* Notions the properties use *)

Ids_of(templates) == {templates[k].id : k \in DOMAIN templates}

(* The ids a runner has confirmed and not yet passed to its final update *)
Owned(r) ==
    IF pc[r] \in {"loop", "update"}
    THEN {locked_templates[r][k].id :
             k \in {j \in DOMAIN locked_templates[r] : j >= idx[r]}}
    ELSE {}

StartedAt(i) == rows[i].video_processing_started_at
ProcessedAt(i) == rows[i].video_processed_at
Fingerprint(i) == rows[i].vpdq_frame_hashes
ErrorMessage(i) == rows[i].video_processing_error

-----------------------------------------------------------------------------
(* C1: with the conditional lock update executed atomically, no id is in   *)
(* the confirmed, not yet finalized set of two different runners.          *)
C1_MutualExclusion ==
    \A r1, r2 \in Runners : r1 # r2 => Owned(r1) \cap Owned(r2) = {}

(* C2: once an item has been finalized, no later step of any runner locks, *)
(* confirms or processes it again.                                         *)
C2_TerminalNeverReprocessed ==
    [][\A i \in finalized :
          /\ ~(StartedAt(i) = None /\ rows'[i].video_processing_started_at # None)
          /\ \A r \in Runners :
                /\ i \in Ids_of(locked_templates'[r]) => i \in Ids_of(locked_templates[r])
                /\ ~(Process(r) /\ Current(r).id = i)]_vars

(* C3: while no final status update has failed, every row whose            *)
(* video_processed_at is set has video_processing_started_at null.         *)
C3_TerminalImpliesUnlocked ==
    failed_updates = {} =>
        \A i \in Ids : ProcessedAt(i) # None => StartedAt(i) = None

(* C4: on every finalized row the fingerprint is non-null exactly when the *)
(* error message is null.                                                  *)
C4_FingerprintXorError ==
    \A i \in finalized : (Fingerprint(i) # None) <=> (ErrorMessage(i) = None)

(* C5: every applied final status update leaves video_processed_at set, so *)
(* the row does not match the candidate predicate again.                   *)
C5_ClaimedOnlyToTerminal ==
    [][\A r \in Runners : UpdateStatus(r) =>
          /\ rows'[Current(r).id].video_processed_at # None
          /\ ~IsCandidate(rows'[Current(r).id])]_vars

(* C6: when a batch run ends and none of its final status updates failed,  *)
(* every item its lock_and_fetch_batch returned has a null lock.           *)
C6_LockClearedForEveryClaimedItem ==
    [][\A r \in Runners :
          (Finish(r) /\ Ids_of(locked_templates[r]) \cap failed_updates = {}) =>
              \A i \in Ids_of(locked_templates[r]) :
                  rows'[i].video_processing_started_at = None]_vars

(* C7: an empty hash list, or one with no frame passing the filter, ends   *)
(* Completed: empty fingerprint, null error, processed, unlocked, counted  *)
(* as processed.                                                           *)
C7_EmptyFingerprintCompleted ==
    [][\A r \in Runners :
          (UpdateStatus(r) /\ hasher_result[r] = "list" /\ vpdq_hashes[r] = Some(<< >>)) =>
              /\ rows'[Current(r).id].vpdq_frame_hashes = Some(<< >>)
              /\ rows'[Current(r).id].video_processing_error = None
              /\ rows'[Current(r).id].video_processed_at # None
              /\ rows'[Current(r).id].video_processing_started_at = None
              /\ processed_count'[r] = processed_count[r] + 1
              /\ failed_count'[r] = failed_count[r]]_vars

(* C8: a failed download ends Failed: error set, fingerprint null, lock    *)
(* cleared, video_processed_at set, and no other row changes.              *)
C8_DownloadFailureFailed ==
    [][\A r \in Runners :
          (UpdateStatus(r) /\ download_result[r] \in DownloadOutcomes \ {"ok"}) =>
              /\ rows'[Current(r).id].video_processing_error # None
              /\ rows'[Current(r).id].vpdq_frame_hashes = None
              /\ rows'[Current(r).id].video_processing_started_at = None
              /\ rows'[Current(r).id].video_processed_at # None
              /\ \A i \in Ids \ {Current(r).id} : rows'[i] = rows[i]]_vars

C10_PersistedQuality ==
    \A i \in Ids : Fingerprint(i) # None =>
        \A k \in DOMAIN Get(Fingerprint(i)) :
            /\ IsValidFrame(Get(Fingerprint(i))[k])
            /\ Get(Fingerprint(i))[k].quality >= HASH_QUALITY_THRESHOLD

(* A persisted fingerprint that holds a frame *)
C10_Witness ==
    \E i \in Ids : Fingerprint(i) # None /\ Get(Fingerprint(i)) # << >>

-----------------------------------------------------------------------------
(* The frames of the hasher's list that pass the quality filter, by position *)
Passing ==
    {i \in DOMAIN hasher_response.frames :
        /\ {"pdq_hash", "quality", "timestamp"} \subseteq DOMAIN hasher_response.frames[i]
        /\ hasher_response.frames[i].quality >= quality_threshold}

(* The position in the hasher's list of the n-th frame that passes *)
NthPassing(n) == CHOOSE i \in Passing : Cardinality({p \in Passing : p < i}) = n - 1

(* The least number of strides of n that cover k frames *)
Strides(k, n) == CHOOSE m \in 0..k : m * n >= k /\ (m = 0 \/ (m - 1) * n < k)

ReturnedList == generated # << >> /\ hasher_response.kind = "list"

(* C11: with k frames passing the quality filter and stride N, the         *)
(* fingerprint has ceil(k / N) frames when N > 1 and k frames when N <= 1. *)
C11_FingerprintLength ==
    ReturnedList =>
        /\ generated[1] # None
        /\ Len(Get(generated[1])) =
               IF subsampling_rate > 1
               THEN Strides(Cardinality(Passing), subsampling_rate)
               ELSE Cardinality(Passing)

(* A stride above 1 that does not divide the number of passing frames *)
C11_Witness ==
    /\ ReturnedList
    /\ subsampling_rate > 1
    /\ Cardinality(Passing) > subsampling_rate
    /\ Cardinality(Passing) % subsampling_rate # 0

(* C12: for a stride N > 1 the fingerprint is the elements at positions 0, *)
(* N, 2N, ... of the quality-filtered sequence, in order; the positions    *)
(* are those of the filtered sequence, not of the raw one.                 *)
C12_StrideOverFiltered ==
    (ReturnedList /\ subsampling_rate > 1) =>
        /\ generated[1] # None
        /\ Get(generated[1]) =
               [j \in 1..Strides(Cardinality(Passing), subsampling_rate) |->
                   hasher_response.frames[NthPassing((j - 1) * subsampling_rate + 1)]]

(* A second kept frame whose raw position is later than its filtered one *)
C12_Witness ==
    /\ ReturnedList
    /\ subsampling_rate > 1
    /\ generated[1] # None
    /\ Len(Get(generated[1])) >= 2
    /\ Get(generated[1])[2].timestamp > subsampling_rate

-----------------------------------------------------------------------------
(* Runner r takes a step of its own that is not its death *)
Steps(r) == (pc'[r] # pc[r] \/ idx'[r] # idx[r]) /\ pc'[r] # "crashed"

(* C13: whatever the outcome of the item at position i, the runner goes on *)
(* to position i + 1, it leaves the loop only past the last item, and      *)
(* every item of the batch is run through the pipeline, its final update   *)
(* following.                                                              *)
C13_FailureNeverAbortsBatch ==
    [][\A r \in Runners :
          /\ (pc[r] = "update" /\ Steps(r)) =>
                 /\ pc'[r] = "loop"
                 /\ idx'[r] = idx[r] + 1
                 /\ locked_templates'[r] = locked_templates[r]
          /\ (pc[r] = "loop" /\ pc'[r] = "done") => idx[r] > Len(locked_templates[r])
          /\ (InLoop(r) /\ Steps(r)) => pc'[r] = "update"]_vars

(* C14: every position the loop has passed is counted once, as processed   *)
(* or as failed, so the two counts of a finished run add up to the number  *)
(* of items lock_and_fetch_batch returned.                                 *)
C14_CountsSumToBatch ==
    \A r \in Runners :
        /\ pc[r] \in {"loop", "update"} =>
               processed_count[r] + failed_count[r] = idx[r] - 1
        /\ pc[r] = "done" =>
               processed_count[r] + failed_count[r] = Len(locked_templates[r])

(* A finished run of two items, one counted processed and one failed *)
C14_Witness ==
    \E r \in Runners :
        /\ pc[r] = "done"
        /\ Len(locked_templates[r]) = 2
        /\ processed_count[r] = 1
        /\ failed_count[r] = 1

-----------------------------------------------------------------------------
(* C15: the list lock_and_fetch_batch returns holds only ids of its        *)
(* select, at most PROCESSING_BATCH_SIZE of them, and exactly the selected *)
(* ids whose lock, when the confirm select reads the table, is the         *)
(* timestamp of this call.                                                 *)
C15_ConfirmedSubset ==
    [][\A r \in Runners :
          /\ Select(r) => Cardinality(candidate_ids'[r]) <= batch_size
          /\ Confirm(r) =>
                 /\ Ids_of(locked_templates'[r]) \subseteq candidate_ids[r]
                 /\ Len(locked_templates'[r]) <= batch_size
                 /\ Ids_of(locked_templates'[r]) =
                        {i \in candidate_ids[r] : StartedAt(i) = Some(timestamp_now[r])}]_vars

(* A batch of one row, a second candidate row left out by the limit *)
C15_Witness ==
    \E r \in Runners :
        /\ batch_size = 1
        /\ pc[r] = "loop"
        /\ Len(locked_templates[r]) = 1
        /\ \E i \in Ids \ candidate_ids[r] : IsCandidate(rows[i])

(* C16: no id appears twice in the list lock_and_fetch_batch returns. *)
C16_NoDuplicateIds ==
    \A r \in Runners :
        \A j, k \in DOMAIN locked_templates[r] :
            j # k => locked_templates[r][j].id # locked_templates[r][k].id

(* A returned list of two rows *)
C16_Witness ==
    \E r \in Runners : pc[r] = "loop" /\ Len(locked_templates[r]) = 2

NoCandidate(rs) == \A i \in Ids : ~IsCandidate(rs[i])

(* C17: a select made when no row matches the candidate predicate ends the *)
(* run normally: empty result, no lock update, nothing counted, every row  *)
(* of the table as it was.                                                 *)
C17_NoCandidateNoEffect ==
    [][\A r \in Runners :
          (Select(r) /\ NoCandidate(rows)) =>
              /\ pc'[r] = "done"
              /\ rows' = rows
              /\ candidate_ids'[r] = {}
              /\ locked_templates'[r] = << >>
              /\ processed_count'[r] = 0
              /\ failed_count'[r] = 0
              /\ ~tmpdir'[r]]_vars

(* A run that read the table, found no candidate and ended *)
C17_Witness ==
    \E r \in Runners :
        /\ pc[r] = "done"
        /\ timestamp_now[r] # 0
        /\ candidate_ids[r] = {}
        /\ NoCandidate(rows)
        /\ \A i \in Ids : StartedAt(i) # Some(timestamp_now[r])

(* C18: a failed store round-trip in lock_and_fetch_batch ends the         *)
(* invocation in the fatal outcome, not in the normal return of a run that *)
(* found no work.                                                          *)
C18_StoreErrorIsFatal ==
    [][\A r \in Runners : StoreError(r) => pc'[r] = "exit1"]_vars

(* C19: when initialize_supabase fails, main exits with status 1 at once:  *)
(* no row changes, and the invocation never selects, locks, confirms or    *)
(* updates afterwards.                                                     *)
C19_InitFailureIsFatal ==
    [][\A r \in Runners :
          /\ InitializeFails(r) => (pc'[r] = "exit1" /\ rows' = rows)
          /\ pc[r] = "exit1" =>
                 /\ pc'[r] = "exit1"
                 /\ timestamp_now'[r] = 0
                 /\ candidate_ids'[r] = {}
                 /\ locked_templates'[r] = << >>
          /\ pc'[r] = "exit1" => pc[r] \in {"idle", "exit1"}]_vars

(* An invocation that exited while a candidate row was waiting *)
C19_Witness ==
    \E r \in Runners :
        /\ pc[r] = "exit1"
        /\ \E i \in Ids : IsCandidate(rows[i])

(* C20: a failed final update leaves the row claimed with the runner's     *)
(* timestamp and its other status columns null, the runner goes on to the  *)
(* next item, and a run that ends leaves claimed only the items whose      *)
(* final update failed.                                                    *)
C20_OnlyFailedUpdatesStayClaimed ==
    [][\A r \in Runners :
          /\ UpdateFails(r) =>
                 /\ rows' = rows
                 /\ pc'[r] = "loop"
                 /\ idx'[r] = idx[r] + 1
                 /\ StartedAt(Current(r).id) = Some(timestamp_now[r])
                 /\ ProcessedAt(Current(r).id) = None
                 /\ Fingerprint(Current(r).id) = None
                 /\ ErrorMessage(Current(r).id) = None
          /\ (pc[r] # "done" /\ pc'[r] = "done") =>
                 \A i \in candidate_ids'[r] :
                     rows'[i].video_processing_started_at = Some(timestamp_now[r])
                         => i \in failed_updates']_vars

-----------------------------------------------------------------------------
(* C21: the lock step changes nothing but video_processing_started_at, and *)
(* only on the rows of its select whose lock is null when the update runs, *)
(* where it writes this call's timestamp; a row another runner has locked  *)
(* keeps its value, and every other row and column is as before.           *)
C21_LockFrame ==
    [][\A r \in Runners :
          (pc[r] = "lock" /\ Steps(r)) =>
              \/ rows' = rows
              \/ \A i \in Ids :
                    IF i \in candidate_ids[r] /\ StartedAt(i) = None
                    THEN rows'[i] = [rows[i] EXCEPT
                             !.video_processing_started_at = Some(timestamp_now[r])]
                    ELSE rows'[i] = rows[i]]_vars

(* After its lock step a runner finds one selected row locked by itself    *)
(* and the other still locked by a runner with another timestamp           *)
C21_Witness ==
    \E r \in Runners :
        /\ pc[r] = "confirm"
        /\ \E i \in candidate_ids[r] : StartedAt(i) = Some(timestamp_now[r])
        /\ \E i \in candidate_ids[r] :
              StartedAt(i) # None /\ StartedAt(i) # Some(timestamp_now[r])

(* C22: a second final update with the same id, fingerprint and error,     *)
(* whatever the clock reads then, leaves the table as the first one left   *)
(* it but for the value of a non-null video_processed_at; and a run issues *)
(* the final update of an item once, then moves to the next position.      *)
C22_FinalizeIdempotent ==
    [][\A r \in Runners :
          /\ UpdateStatus(r) =>
                 \A clock \in 1..MaxClock :
                    LET id    == Current(r).id
                        twice == ApplyUpdate(rows', id,
                                     UpdateData(clock, vpdq_hashes[r], error_msg[r]))
                    IN  /\ twice[id].vpdq_frame_hashes = rows'[id].vpdq_frame_hashes
                        /\ twice[id].video_processing_error = rows'[id].video_processing_error
                        /\ twice[id].video_processing_started_at = None
                        /\ rows'[id].video_processing_started_at = None
                        /\ (twice[id].video_processed_at = None)
                               <=> (rows'[id].video_processed_at = None)
                        /\ twice[id].source_video_url = rows'[id].source_video_url
                        /\ \A i \in Ids \ {id} : twice[i] = rows'[i]
          /\ (UpdateStatus(r) \/ UpdateFails(r)) =>
                 /\ idx'[r] = idx[r] + 1
                 /\ \A k \in 1..(idx[r] - 1) :
                        locked_templates[r][k].id # Current(r).id]_vars

(* The final update of the second item of a batch has been applied, with   *)
(* a fingerprint                                                           *)
C22_Witness ==
    \E r \in Runners :
        /\ pc[r] = "loop"
        /\ idx[r] = 3
        /\ locked_templates[r][2].id \in finalized
        /\ Fingerprint(locked_templates[r][2].id) # None
        /\ ProcessedAt(locked_templates[r][2].id) # None

-----------------------------------------------------------------------------
(* C23: an item a runner held confirmed when it was killed stays locked    *)
(* ever after: no step changes its lock, and no runner runs the pipeline   *)
(* on it or issues its final update.                                       *)
C23_AbandonedStaysClaimed ==
    [][\A i \in abandoned :
          /\ StartedAt(i) # None
          /\ rows'[i].video_processing_started_at = StartedAt(i)
          /\ \A r \in Runners :
                (Process(r) \/ UpdateStatus(r) \/ UpdateFails(r)) => Current(r).id # i]_vars

(* C24: a runner runs the pipeline on, and issues the final update of, an  *)
(* id of the list its own lock_and_fetch_batch returned; when it issues    *)
(* the update the row still carries its timestamp; and no other runner has *)
(* the same item between pipeline and final update at that moment.         *)
C24_OnlyOwnerFinalizes ==
    [][\A r \in Runners :
          /\ Process(r) => Current(r).id \in Ids_of(locked_templates[r])
          /\ (UpdateStatus(r) \/ UpdateFails(r)) =>
                 /\ Current(r).id \in Ids_of(locked_templates[r])
                 /\ StartedAt(Current(r).id) = Some(timestamp_now[r])
                 /\ \A q \in Runners \ {r} :
                        ~(pc[q] = "update" /\ Current(q).id = Current(r).id)]_vars

(* C25: a runner starts the pipeline of an item only with no other item in *)
(* hand, and its next step after the pipeline returns is the final update  *)
(* of that same item, after which it stands at the next position with      *)
(* nothing in hand.                                                        *)
C25_OneItemAtATime ==
    [][\A r \in Runners :
          /\ Process(r) =>
                 /\ pc[r] = "loop"
                 /\ download_result[r] = "none" /\ hasher_result[r] = "none"
                 /\ vpdq_hashes[r] = None /\ error_msg[r] = None
                 /\ pc'[r] = "update"
                 /\ idx'[r] = idx[r]
          /\ (pc[r] = "update" /\ Steps(r)) =>
                 /\ UpdateStatus(r) \/ UpdateFails(r)
                 /\ pc'[r] = "loop"
                 /\ idx'[r] = idx[r] + 1
                 /\ download_result'[r] = "none" /\ hasher_result'[r] = "none"
                 /\ vpdq_hashes'[r] = None /\ error_msg'[r] = None]_vars

(* The pipeline of the second item has returned, the first item finalized *)
C25_Witness ==
    \E r \in Runners :
        /\ pc[r] = "update"
        /\ idx[r] = 2
        /\ locked_templates[r][1].id \in finalized
        /\ locked_templates[r][2].id \notin finalized

(* C26: when the download fails the hasher is not called, when the hashing *)
(* fails there is no filtered list, and an outcome with an error message   *)
(* is persisted with a null fingerprint.                                   *)
C26_StagesAreHardStops ==
    [][\A r \in Runners :
          UpdateStatus(r) =>
              /\ download_result[r] # "ok" =>
                     (hasher_result[r] = "not_called" /\ vpdq_hashes[r] = None)
              /\ hasher_result[r] \in HashFailures \cup {"getsize_raises"} =>
                     vpdq_hashes[r] = None
              /\ error_msg[r] # None =>
                     rows'[Current(r).id].vpdq_frame_hashes = None]_vars

(* C27: when process_video has returned, no temp file of the item is left  *)
(* in the batch directory.                                                 *)
C27_NoScratchFileAfterPipeline ==
    \A r \in Runners : pc[r] = "update" => Current(r).id \notin files[r]

(* C28: the batch directory exists exactly while a runner is in the item   *)
(* loop of a non-empty batch: not before lock_and_fetch_batch has returned *)
(* a non-empty list, and not after the invocation has ended, by the end of *)
(* the loop, by an exception out of it, or without entering it.            *)
C28_ScratchDirectoryScoped ==
    \A r \in Runners :
        /\ pc[r] \in {"loop", "update"} => (tmpdir[r] /\ locked_templates[r] # << >>)
        /\ pc[r] \in {"idle", "select", "lock", "confirm"} => ~tmpdir[r]
        /\ pc[r] \in {"done", "exit1", "interrupted"} => (~tmpdir[r] /\ files[r] = {})

(* One invocation has ended by an exception out of the loop, another by    *)
(* the end of the loop of a non-empty batch, a third way: without a batch  *)
C28_Witness ==
    \E r, q \in Runners :
        /\ pc[r] = "interrupted"
        /\ pc[q] = "done"
        /\ locked_templates[q] # << >>

(* C29: on the store without atomicity the write of a lock update lands on *)
(* every row its read found unlocked, whatever the lock of the row is by   *)
(* then, and a runner runs the pipeline on every item with a URL that its  *)
(* confirm returned; so the state of C29_Witness is reached.               *)
C29_NonAtomicLockOverwrites ==
    [][\A r \in Runners :
          /\ LockWrite(r) =>
                 \A i \in Ids :
                    rows'[i].video_processing_started_at =
                        IF i \in read_unlocked[r] THEN Some(timestamp_now[r])
                        ELSE StartedAt(i)
          /\ (InLoop(r) /\ Truthy(Current(r).source_video_url) /\ Steps(r)) =>
                 pc'[r] = "update"]_vars

(* Two calls with different timestamps have both confirmed the same id    *)
(* and both runners have run the pipeline on it, neither having issued its *)
(* final update yet                                                        *)
C29_Witness ==
    \E r, q \in Runners :
        /\ r # q
        /\ timestamp_now[r] # timestamp_now[q]
        /\ pc[r] = "update"
        /\ pc[q] = "update"
        /\ Current(r).id = Current(q).id

(* C30: a hasher list holding an element that is not a well-formed frame   *)
(* makes generate_vpdq_hashes return None (hash generation failed), not a  *)
(* list built from the other elements.                                     *)
C30_MalformedFrameFails ==
    (/\ ReturnedList
     /\ \E i \in DOMAIN hasher_response.frames :
           ~IsValidFrame(hasher_response.frames[i]))
        => generated[1] = None

-----------------------------------------------------------------------------
(* C31: no step changes the source_video_url of a row (the id is the key   *)
(* the row is found by), and an applied final update of id X changes its   *)
(* four status columns on row X and nothing on any other row.              *)
C31_UpdateFrame ==
    [][/\ \A i \in Ids : rows'[i].source_video_url = rows[i].source_video_url
       /\ \A r \in Runners :
             UpdateStatus(r) =>
                 \A i \in Ids \ {Current(r).id} : rows'[i] = rows[i]]_vars

(* A row has been finalized with a fingerprint while the other row is      *)
(* locked                                                                  *)
C31_Witness ==
    \E i, j \in Ids :
        /\ i # j
        /\ i \in finalized
        /\ Fingerprint(i) # None /\ StartedAt(i) = None
        /\ StartedAt(j) # None /\ Fingerprint(j) = None

(* C32: when lock_and_fetch_batch returns, after its confirm select or     *)
(* after catching an error, every selected row that carries its timestamp  *)
(* is in the list it returns.                                              *)
C32_NoLockOutsideResult ==
    [][\A r \in Runners :
          (pc[r] \in {"select", "lock", "confirm"} /\ pc'[r] \in {"loop", "done"}) =>
              \A i \in candidate_ids[r] :
                  rows'[i].video_processing_started_at = Some(timestamp_now[r])
                      => i \in Ids_of(locked_templates'[r])]_vars

Completed(row) ==
    /\ row.video_processed_at # None
    /\ row.vpdq_frame_hashes # None
    /\ row.video_processing_error = None
    /\ row.video_processing_started_at = None

(* C33: a row with a persisted fingerprint, no error and a processing date *)
(* keeps that fingerprint, keeps a null error and keeps a non-null         *)
(* processing date in every later step.                                    *)
C33_CompletedIsFinal ==
    [][\A i \in Ids :
          (/\ Fingerprint(i) # None
           /\ ErrorMessage(i) = None
           /\ ProcessedAt(i) # None) =>
              /\ rows'[i].vpdq_frame_hashes = Fingerprint(i)
              /\ rows'[i].video_processing_error = None
              /\ rows'[i].video_processed_at # None]_vars

(* C34: the confirm select of a call never returns an id that another      *)
(* runner holds confirmed and has not yet finalized, whatever the          *)
(* timestamps of the two calls.                                            *)
C34_ConfirmExcludesOthers ==
    [][\A q \in Runners :
          Confirm(q) =>
              \A r \in Runners \ {q} :
                  Ids_of(locked_templates'[q]) \cap Owned(r) = {}]_vars

(* C35: when a run ends, its processed count is the number of its items    *)
(* whose row is Completed and its failed count the number of its items     *)
(* whose row carries an error message.                                     *)
C35_SummaryAgreesWithStore ==
    [][\A r \in Runners :
          Finish(r) =>
              /\ processed_count[r] =
                     Cardinality({i \in Ids_of(locked_templates[r]) : Completed(rows[i])})
              /\ failed_count[r] =
                     Cardinality({i \in Ids_of(locked_templates[r]) :
                                     ErrorMessage(i) # None})]_vars

(* C36: a final update writes a non-null video_processed_at exactly when   *)
(* the fingerprint it writes is non-null.                                  *)
C36_ProcessedAtIffFingerprint ==
    [][\A r \in Runners :
          UpdateStatus(r) =>
              /\ rows'[Current(r).id].vpdq_frame_hashes = vpdq_hashes[r]
              /\ (rows'[Current(r).id].video_processed_at # None)
                     <=> (vpdq_hashes[r] # None)]_vars

(* One row finalized with a null fingerprint and no processing date, the   *)
(* other with an empty fingerprint and a processing date                   *)
C36_Witness ==
    \E i, j \in finalized :
        /\ Fingerprint(i) = None /\ ProcessedAt(i) = None
        /\ Fingerprint(j) = Some(<< >>) /\ ProcessedAt(j) # None

(* C37: under repeated invocations with no crash and no store failure, and *)
(* every runner taking its steps, there comes a moment from which no row   *)
(* matches the candidate predicate any more, whatever the outcomes of the  *)
(* downloads and of the hashing.                                           *)
C37_CandidatesDrain ==
    <>[](\A i \in Ids : ~IsCandidate(rows[i]))

====
